---------------------------- MODULE Spec2Model ----------------------------
(***************************************************************************)
(* A model of otk-time-systems: the constants module, the unit and         *)
(* calendar conversions and the Epoch value object.                        *)
(*                                                                         *)
(* JavaScript numbers are IEEE-754 binary64.  They are modelled bit for    *)
(* bit: a number is a sign, a 53-bit significand and a binary exponent,    *)
(* and +, -, *, / and Math.floor round to nearest, ties to even, as the    *)
(* engine does.  The significand is an arbitrary-precision natural (a      *)
(* little-endian sequence of 14-bit limbs) because the model checker's     *)
(* integers are 32 bits wide.  Subnormals, infinities and the sign of zero *)
(* are outside the range of every value the program computes here.         *)
(***************************************************************************)
EXTENDS Integers, Sequences, FiniteSets, TLC

---------------------------------------------------------------------------
(* A const is evaluated once, where it is declared, and an argument once,  *)
(* at the call.  Only({e : x \in {v}}) is e with x bound to the value of   *)
(* v: v is evaluated once however often e uses x.  Where a function        *)
(* declares several consts, the bindings nest and read from the last line  *)
(* up.                                                                     *)

Only(S) == CHOOSE x \in S : TRUE

---------------------------------------------------------------------------
(* Arbitrary-precision naturals: little-endian limbs, no high zero limb.   *)

LimbBits == 14
Base == 2^LimbBits

RECURSIVE BigStrip(_)
BigStrip(a) ==
  IF Len(a) = 0 THEN a
  ELSE IF a[Len(a)] = 0 THEN BigStrip(SubSeq(a, 1, Len(a) - 1)) ELSE a

Limb(a, i) == IF i <= Len(a) THEN a[i] ELSE 0

RECURSIVE BigNat(_)
BigNat(n) == IF n = 0 THEN <<>> ELSE <<n % Base>> \o BigNat(n \div Base)

RECURSIVE BigToInt(_)
BigToInt(a) == IF Len(a) = 0 THEN 0 ELSE a[1] + Base * BigToInt(Tail(a))

RECURSIVE BigAddC(_, _, _, _)
BigAddC(a, b, i, c) ==
  IF i > Len(a) /\ i > Len(b)
  THEN IF c = 0 THEN <<>> ELSE <<c>>
  ELSE Only({ <<s % Base>> \o BigAddC(a, b, i + 1, s \div Base)
              : s \in {Limb(a, i) + Limb(b, i) + c} })

BigAdd(a, b) == Only({ BigAddC(v[1], v[2], 1, 0) : v \in {<<a, b>>} })

RECURSIVE BigSubC(_, _, _, _)
BigSubC(a, b, i, c) ==
  IF i > Len(a) THEN <<>>
  ELSE Only({ IF s < 0 THEN <<s + Base>> \o BigSubC(a, b, i + 1, 1)
                       ELSE <<s>> \o BigSubC(a, b, i + 1, 0)
              : s \in {Limb(a, i) - Limb(b, i) - c} })

\* a - b for a >= b
BigSub(a, b) ==
  Only({ BigStrip(BigSubC(v[1], v[2], 1, 0)) : v \in {<<a, b>>} })

RECURSIVE BigCmpAt(_, _, _)
BigCmpAt(a, b, i) ==
  IF i = 0 THEN 0
  ELSE IF a[i] < b[i] THEN -1
  ELSE IF a[i] > b[i] THEN 1
  ELSE BigCmpAt(a, b, i - 1)

BigCmpV(a, b) ==
  IF Len(a) < Len(b) THEN -1
  ELSE IF Len(a) > Len(b) THEN 1
  ELSE BigCmpAt(a, b, Len(a))

\* -1, 0 or 1 as a < b, a = b, a > b
BigCmp(a, b) == Only({ BigCmpV(v[1], v[2]) : v \in {<<a, b>>} })

RECURSIVE ColSum(_, _, _, _)
ColSum(a, b, k, i) ==
  IF i > Len(a) \/ i > k THEN 0
  ELSE (IF k + 1 - i <= Len(b) THEN a[i] * b[k + 1 - i] ELSE 0)
       + ColSum(a, b, k, i + 1)

RECURSIVE BigMulC(_, _, _, _)
BigMulC(a, b, k, c) ==
  IF k > Len(a) + Len(b) - 1
  THEN IF c = 0 THEN <<>> ELSE <<c % Base>> \o BigMulC(a, b, k, c \div Base)
  ELSE Only({ <<s % Base>> \o BigMulC(a, b, k + 1, s \div Base)
              : s \in {ColSum(a, b, k, 1) + c} })

BigMulV(a, b) ==
  IF Len(a) = 0 \/ Len(b) = 0 THEN <<>> ELSE BigMulC(a, b, 1, 0)

\* a * b; either operand has at most 7 limbs
BigMul(a, b) == Only({ BigMulV(v[1], v[2]) : v \in {<<a, b>>} })

RECURSIVE Zeros(_)
Zeros(n) == IF n = 0 THEN <<>> ELSE <<0>> \o Zeros(n - 1)

BigShlV(a, k) ==
  IF Len(a) = 0 THEN a
  ELSE Zeros(k \div LimbBits) \o BigMulV(a, <<2^(k % LimbBits)>>)

\* a * 2^k
BigShl(a, k) == Only({ BigShlV(v[1], v[2]) : v \in {<<a, k>>} })

RECURSIVE BigShrBits(_, _, _, _)
BigShrBits(a, r, i, hi) ==
  \* limbs i..1 of a divided by 2^r, hi the bits carried from limb i+1
  IF i = 0 THEN <<>>
  ELSE BigShrBits(a, r, i - 1, a[i] % (2^r))
       \o <<(a[i] \div (2^r)) + hi * 2^(LimbBits - r)>>

BigShrV(a, k) ==
  IF k \div LimbBits >= Len(a) THEN <<>>
  ELSE Only({ BigStrip(BigShrBits(d, k % LimbBits, Len(d), 0))
              : d \in {SubSeq(a, (k \div LimbBits) + 1, Len(a))} })

\* floor(a / 2^k)
BigShr(a, k) == Only({ BigShrV(v[1], v[2]) : v \in {<<a, k>>} })

RECURSIVE IntBitLen(_)
IntBitLen(n) == IF n = 0 THEN 0 ELSE 1 + IntBitLen(n \div 2)

BigBitLen(a) ==
  IF Len(a) = 0 THEN 0 ELSE LimbBits * (Len(a) - 1) + IntBitLen(a[Len(a)])

BigOdd(a) == Len(a) > 0 /\ a[1] % 2 = 1

---------------------------------------------------------------------------
(* IEEE-754 binary64.  A finite number is (-1)^s * m * 2^e with m = 0 or   *)
(* 2^52 <= m < 2^53, so equal numbers are equal records.                   *)

Prec == 53

Num(s, m, e) == [k |-> "number", s |-> s, m |-> m, e |-> e]
Zero == Num(0, <<>>, 0)
NaN == [k |-> "NaN", s |-> 0, m |-> <<>>, e |-> 0]
\* the value of a binding that does not exist
Undefined == [k |-> "undefined", s |-> 0, m |-> <<>>, e |-> 0]

IsNum(x) == x.k = "number"
IsZero(x) == IsNum(x) /\ Len(x.m) = 0

\* q * 2^(e + k), where the k bits cut off q are rem: up when rem is above
\* half a unit of q, or is half a unit and q is odd
RoundUp(s, q, rem, k, e) ==
  Only({ Only({
      IF BigBitLen(q1) > Prec THEN Num(s, BigShrV(q1, 1), e + k + 1)
                              ELSE Num(s, q1, e + k)
    : q1 \in {IF c > 0 \/ (c = 0 /\ BigOdd(q)) THEN BigAdd(q, <<1>>) ELSE q} })
    : c  \in {BigCmp(rem, BigShlV(<<1>>, k - 1))} })

RoundV(s, m, e, L) ==
  IF L = 0 THEN Zero
  ELSE IF L <= Prec THEN Num(s, BigShlV(m, Prec - L), e - (Prec - L))
  ELSE Only({ RoundUp(s, q, BigSub(m, BigShlV(q, L - Prec)), L - Prec, e)
              : q \in {BigShrV(m, L - Prec)} })

\* round m * 2^e (m any natural) to nearest, ties to even
Round(s, m, e) ==
  Only({ RoundV(v[1], v[2], v[3], BigBitLen(v[2])) : v \in {<<s, m, e>>} })

FromInt(n) == IF n < 0 THEN Round(1, BigNat(-n), 0) ELSE Round(0, BigNat(n), 0)

\* -x
FNeg(x) ==
  Only({ IF IsNum(v) /\ ~IsZero(v) THEN Num(1 - v.s, v.m, v.e) ELSE v
         : v \in {x} })

FAddAligned(x, y, mx, my, e0) ==
  IF x.s = y.s THEN Round(x.s, BigAddC(mx, my, 1, 0), e0)
  ELSE Only({ IF c = 0 THEN Zero
              ELSE IF c > 0 THEN Round(x.s, BigSub(mx, my), e0)
              ELSE Round(y.s, BigSub(my, mx), e0)
              : c \in {BigCmpV(mx, my)} })

FAddV(x, y) ==
  IF ~IsNum(x) \/ ~IsNum(y) THEN NaN
  ELSE IF IsZero(x) THEN y
  ELSE IF IsZero(y) THEN x
  ELSE Only({ FAddAligned(x, y, a[1], a[2], a[3])
              : a \in {IF x.e < y.e
                       THEN <<x.m, BigShlV(y.m, y.e - x.e), x.e>>
                       ELSE <<BigShlV(x.m, x.e - y.e), y.m, y.e>>} })

\* x + y
FAdd(x, y) == Only({ FAddV(v[1], v[2]) : v \in {<<x, y>>} })

\* x - y
FSub(x, y) == Only({ FAddV(v[1], FNeg(v[2])) : v \in {<<x, y>>} })

\* x * y
FMul(x, y) ==
  Only({ IF ~IsNum(a) \/ ~IsNum(b) THEN NaN
         ELSE IF IsZero(a) \/ IsZero(b) THEN Zero
         ELSE Round((a.s + b.s) % 2, BigMulV(a.m, b.m), a.e + b.e)
         : a \in {x}, b \in {y} })

\* one more quotient bit of r / d, r < 2d: v is <<r, q>>
DivStep(v, d) ==
  IF BigCmpV(v[1], d) >= 0
  THEN <<BigShl(BigSub(v[1], d), 1), BigAdd(BigAdd(v[2], v[2]), <<1>>)>>
  ELSE <<BigShlV(v[1], 1), BigAdd(v[2], v[2])>>

RECURSIVE DivBits(_, _, _)
DivBits(v, d, n) ==
  IF n = 0 THEN v
  ELSE Only({ DivBits(w, d, n - 1) : w \in {DivStep(v, d)} })

\* eight more quotient bits
Div8(v, d) == Only({ DivBits(w, d, 8) : w \in {v} })

\* floor(2^56 r / d) for r < 2d, its last bit set when the division is inexact
Quotient(r, d) ==
  Only({ BigAdd(v[2], IF Len(v[1]) = 0 \/ BigOdd(v[2]) THEN <<>> ELSE <<1>>)
         : v \in {DivStep(Div8(Div8(Div8(Div8(Div8(Div8(Div8(
                    <<r, <<>>>>, d), d), d), d), d), d), d), d)} })

\* x / y, y a non-zero number
FDiv(x, y) ==
  Only({ IF ~IsNum(a) \/ ~IsNum(b) \/ IsZero(b) THEN NaN
         ELSE IF IsZero(a) THEN Zero
         ELSE Round((a.s + b.s) % 2, Quotient(a.m, b.m),
                    a.e - b.e - (Prec + 3))
         : a \in {x}, b \in {y} })

\* Math.floor(x)
Floor(x) ==
  Only({ IF ~IsNum(v) THEN NaN
         ELSE IF v.e >= 0 THEN v
         ELSE Only({ IF v.s = 1 /\ BigCmp(BigShlV(q, -v.e), v.m) # 0
                     THEN Round(1, BigAdd(q, <<1>>), 0)
                     ELSE Round(v.s, q, 0)
                     : q \in {BigShrV(v.m, -v.e)} })
         : v \in {x} })

\* x < y; false when either is NaN
FLt(x, y) ==
  Only({ IsNum(d) /\ ~IsZero(d) /\ d.s = 1 : d \in {FSub(x, y)} })

\* x > y
FGt(x, y) == FLt(y, x)

\* x <= y
FLe(x, y) ==
  Only({ IsNum(d) /\ (IsZero(d) \/ d.s = 1) : d \in {FSub(x, y)} })

\* the integer a whole number of magnitude below 2^31 stands for
ToInt(x) ==
  Only({ Only({ IF v.s = 1 THEN -n ELSE n
                : n \in {BigToInt(IF v.e >= 0 THEN BigShlV(v.m, v.e)
                                              ELSE BigShrV(v.m, -v.e))} })
         : v \in {x} })

\* the number literal written n / 10^k in decimal: Dec(306001, 4) is 30.6001
Dec(n, k) == FDiv(FromInt(n), FromInt(10^k))

---------------------------------------------------------------------------
(* constants                                                               *)

One == FromInt(1)

DAYS_TO_HOURS == FromInt(24)
HOURS_TO_MINUTES == FromInt(60)
MINUTES_TO_SECONDS == FromInt(60)
SECONDS_TO_MILLISECONDS == FromInt(1000)
MILLISECONDS_TO_SECONDS == Dec(1, 3)
SECONDS_TO_MINUTES == FDiv(One, MINUTES_TO_SECONDS)
MINUTES_TO_HOURS == FDiv(One, HOURS_TO_MINUTES)
HOURS_TO_DAYS == FDiv(One, DAYS_TO_HOURS)
DAYS_TO_SECONDS == FromInt(86400)
DAYS_TO_MILLISECONDS == FMul(DAYS_TO_SECONDS, SECONDS_TO_MILLISECONDS)
DAYS_TO_MINUTES == FromInt(1440)
HOURS_TO_SECONDS == FromInt(3600)
SECONDS_TO_DAYS == FDiv(One, DAYS_TO_SECONDS)
SECONDS_TO_HOURS == FDiv(One, HOURS_TO_SECONDS)
DAYS_IN_JULIAN_YEAR == Dec(36525, 2)
DAYS_IN_JULIAN_CENTURY == FromInt(36525)
MJD_ZERO == Dec(24000005, 1)
J2000 == FromInt(2451545)
JD_RECIPROCAL_1 == FDiv(One, Dec(3652425, 2))
JD_RECIPROCAL_2 == FDiv(One, Dec(36525, 2))
JD_RECIPROCAL_3 == FDiv(One, Dec(306001, 4))
JD_RECIPROCAL_4 == FDiv(One, DAYS_IN_JULIAN_CENTURY)
TT_MINUS_TAI == FMul(Dec(32184, 3), SECONDS_TO_DAYS)
TAI_MINUS_UTC == FMul(FromInt(37), SECONDS_TO_DAYS)
TT_MINUS_UTC == FMul(FAdd(TT_MINUS_TAI, TAI_MINUS_UTC), SECONDS_TO_DAYS)

\* the constants module: what it exports under each name
constants ==
  [DAYS_TO_HOURS |-> DAYS_TO_HOURS,
   HOURS_TO_MINUTES |-> HOURS_TO_MINUTES,
   MINUTES_TO_SECONDS |-> MINUTES_TO_SECONDS,
   SECONDS_TO_MILLISECONDS |-> SECONDS_TO_MILLISECONDS,
   MILLISECONDS_TO_SECONDS |-> MILLISECONDS_TO_SECONDS,
   SECONDS_TO_MINUTES |-> SECONDS_TO_MINUTES,
   MINUTES_TO_HOURS |-> MINUTES_TO_HOURS,
   HOURS_TO_DAYS |-> HOURS_TO_DAYS,
   DAYS_TO_SECONDS |-> DAYS_TO_SECONDS,
   DAYS_TO_MILLISECONDS |-> DAYS_TO_MILLISECONDS,
   DAYS_TO_MINUTES |-> DAYS_TO_MINUTES,
   HOURS_TO_SECONDS |-> HOURS_TO_SECONDS,
   SECONDS_TO_DAYS |-> SECONDS_TO_DAYS,
   SECONDS_TO_HOURS |-> SECONDS_TO_HOURS,
   DAYS_IN_JULIAN_YEAR |-> DAYS_IN_JULIAN_YEAR,
   DAYS_IN_JULIAN_CENTURY |-> DAYS_IN_JULIAN_CENTURY,
   MJD_ZERO |-> MJD_ZERO,
   J2000 |-> J2000,
   JD_RECIPROCAL_1 |-> JD_RECIPROCAL_1,
   JD_RECIPROCAL_2 |-> JD_RECIPROCAL_2,
   JD_RECIPROCAL_3 |-> JD_RECIPROCAL_3,
   JD_RECIPROCAL_4 |-> JD_RECIPROCAL_4,
   TT_MINUS_TAI |-> TT_MINUS_TAI,
   TAI_MINUS_UTC |-> TAI_MINUS_UTC,
   TT_MINUS_UTC |-> TT_MINUS_UTC]

---------------------------------------------------------------------------
(* conversions                                                             *)

\* the names the conversions import from the constants module
ConversionImports ==
  {"DAYS_TO_HOURS", "HOURS_TO_DAYS", "HOURS_TO_MINUTES", "JD_RECIPPROCAL_1",
   "JD_RECIPPROCAL_2", "JD_RECIPPROCAL_3", "MINUTES_TO_HOURS",
   "MINUTES_TO_SECONDS", "MJD_ZERO", "SECONDS_TO_MINUTES", "TT_MINUS_UTC"}

\* the names the Epoch class imports from the constants module
EpochImports == {"J2000", "JD_RECIPROCAL_4"}

\* An imported binding once the modules are linked without a check of the
\* names: a name the constants module exports is bound to that constant
\* (and is used below under its own name), and any other name reads as
\* undefined.
Import(name) ==
  IF name \in DOMAIN constants THEN constants[name] ELSE Undefined

JD_RECIPPROCAL_1 == Import("JD_RECIPPROCAL_1")
JD_RECIPPROCAL_2 == Import("JD_RECIPPROCAL_2")
JD_RECIPPROCAL_3 == Import("JD_RECIPPROCAL_3")

secondsToMinutes(seconds) == FMul(seconds, SECONDS_TO_MINUTES)
minutesToSeconds(minutes) == FMul(minutes, MINUTES_TO_SECONDS)
minutesToHours(minutes) == FMul(minutes, MINUTES_TO_HOURS)
hoursToMinutes(hours) == FMul(hours, HOURS_TO_MINUTES)
hoursToDays(hours) == FMul(hours, HOURS_TO_DAYS)
daysToHours(days) == FMul(days, DAYS_TO_HOURS)
minutesToDays(minutes) == hoursToDays(minutesToHours(minutes))
secondsToDays(seconds) == minutesToDays(secondsToMinutes(seconds))

hmsToDays(hours, minutes, seconds) ==
  FAdd(FAdd(hoursToDays(hours), minutesToDays(minutes)),
       secondsToDays(seconds))

\* Math.trunc(x)
Trunc(x) ==
  Only({ IF IsNum(v) /\ v.s = 1 THEN FNeg(Floor(FNeg(v))) ELSE Floor(v)
         : v \in {x} })

\* daysToHMS with Math.trunc in the place of Math.floor
daysToHMSTruncating(days) ==
  Only({ Only({ Only({ Only({ Only({
      [hours |-> hours, minutes |-> minutes, seconds |-> seconds]
    : seconds      \in {minutesToSeconds(FSub(completeMins, minutes))} })
    : minutes      \in {Trunc(completeMins)} })
    : completeMins \in {hoursToMinutes(FSub(completeHrs, hours))} })
    : hours        \in {Trunc(completeHrs)} })
    : completeHrs  \in {daysToHours(days)} })

daysToHMS(days) ==
  Only({ Only({ Only({ Only({ Only({
      [hours |-> hours, minutes |-> minutes, seconds |-> seconds]
    : seconds      \in {minutesToSeconds(FSub(completeMins, minutes))} })
    : minutes      \in {Floor(completeMins)} })
    : completeMins \in {hoursToMinutes(FSub(completeHrs, hours))} })
    : hours        \in {Floor(completeHrs)} })
    : completeHrs  \in {daysToHours(days)} })

\* the number literals of calendarToJulian and julianToCalendar
Two == FromInt(2)
Three == FromInt(3)
Twelve == FromInt(12)
Hundredth == Dec(1, 2)
Quarter == Dec(25, 2)
Half == Dec(5, 1)
TwoAndHalf == Dec(25, 1)
ThirteenAndHalf == Dec(135, 1)
JulianYear == Dec(36525, 2)
MonthLength == Dec(306001, 4)
JdOffset == Dec(17209945, 1)
Cutover == FromInt(2299160)
GregorianBase == Dec(186721625, 2)
CShift == FromInt(1524)
DShift == Dec(1221, 1)
YearShift == FromInt(4716)

\* calendarToJulian with the test m < 2 in the place of m < 3
calendarToJulianJanuaryOnly(yr, month, day, hour, minute, second) ==
  Only({ Only({ Only({ Only({ Only({ Only({
      FAdd(jd, hmsToDays(hour, minute, second))
    : jd   \in {FAdd(FAdd(FAdd(FAdd(b, Floor(FMul(JulianYear, y))),
                               Floor(FMul(MonthLength, FAdd(m, One)))),
                          day),
                     JdOffset)} })
    : b    \in {FAdd(FSub(Two, a), Floor(FMul(a, Quarter)))} })
    : a    \in {Floor(FMul(y, Hundredth))} })
    : m    \in {IF wrap THEN FAdd(month, Twelve) ELSE month} })
    : y    \in {IF wrap THEN FSub(yr, One) ELSE yr} })
    : wrap \in {FLt(month, Two)} })

\* the body of calendarToJulian, on the values of its arguments
calendarToJulianV(yr, month, day, hour, minute, second) ==
  Only({ Only({ Only({ Only({ Only({ Only({
      FAdd(jd, hmsToDays(hour, minute, second))
    : jd   \in {FAdd(FAdd(FAdd(FAdd(b, Floor(FMul(JulianYear, y))),
                               Floor(FMul(MonthLength, FAdd(m, One)))),
                          day),
                     JdOffset)} })
    : b    \in {FAdd(FSub(Two, a), Floor(FMul(a, Quarter)))} })
    : a    \in {Floor(FMul(y, Hundredth))} })
    : m    \in {IF wrap THEN FAdd(month, Twelve) ELSE month} })
    : y    \in {IF wrap THEN FSub(yr, One) ELSE yr} })
    : wrap \in {FLt(month, Three)} })

calendarToJulian(yr, month, day, hour, minute, second) ==
  Only({ calendarToJulianV(v[1], v[2], v[3], v[4], v[5], v[6])
         : v \in {<<yr, month, day, hour, minute, second>>} })

\* whether julianToCalendar(jd) takes the branch if (i > 2299160)
GregorianBranch(jd) == FGt(Floor(FAdd(jd, Half)), Cutover)

\* let month = g - 1; if (g > 13.5) month -= 12
CalendarMonth(g) ==
  Only({ IF FGt(g, ThirteenAndHalf) THEN FSub(month, Twelve) ELSE month
         : month \in {FSub(g, One)} })

\* let year = d - 4716; if (month < 2.5) year += 1
CalendarYear(d, month) ==
  Only({ IF FLt(month, TwoAndHalf) THEN FAdd(year, One) ELSE year
         : year \in {FSub(d, YearShift)} })

\* let b = i; if (i > 2299160) { const a = ...; b = i + 1 + a - ... }
CalendarB(i) ==
  IF FGt(i, Cutover)
  THEN Only({ FSub(FAdd(FAdd(i, One), a), Floor(FMul(a, Quarter)))
              : a \in {Floor(FMul(FSub(i, GregorianBase),
                                  JD_RECIPPROCAL_1))} })
  ELSE i

julianToCalendar(jd) ==
  Only({ Only({ Only({ Only({ Only({ Only({ Only({
  Only({ Only({ Only({ Only({ Only({ Only({
      [year |-> year, month |-> month, day |-> Floor(day),
       hour |-> time.hours, minute |-> time.minutes,
       second |-> time.seconds]
    : time   \in {daysToHMS(decDay)} })
    : decDay \in {FSub(day, Floor(day))} })
    : year   \in {CalendarYear(d, month)} })
    : month  \in {CalendarMonth(g)} })
    : day    \in {FSub(FAdd(FSub(c, e), f), Floor(FMul(MonthLength, g)))} })
    : g      \in {Floor(FMul(FSub(c, e), JD_RECIPPROCAL_3))} })
    : e      \in {Floor(FMul(JulianYear, d))} })
    : d      \in {Floor(FMul(FSub(c, DShift), JD_RECIPPROCAL_2))} })
    : c      \in {FAdd(b, CShift)} })
    : b      \in {CalendarB(i)} })
    : f      \in {FSub(jd1, i)} })
    : i      \in {Floor(jd1)} })
    : jd1    \in {FAdd(jd, Half)} })

julianUTCtoTT(jd) == FAdd(jd, TT_MINUS_UTC)

\* julianTTtoUTC with + in the place of -
julianTTtoUTCAdding(jd) == FAdd(jd, TT_MINUS_UTC)

julianTTtoUTC(jd) == FSub(jd, TT_MINUS_UTC)

---------------------------------------------------------------------------
(* Strings are sequences of one-character strings.  The characters that    *)
(* occur are the digits and - + . : T Z and the blank; number literals     *)
(* with an exponent part do not occur.                                     *)

Digits == <<"0", "1", "2", "3", "4", "5", "6", "7", "8", "9">>
IsDigit(c) == \E i \in 1..10 : Digits[i] = c
DigitVal(c) == (CHOOSE i \in 1..10 : Digits[i] = c) - 1

\* String.prototype.split(sep), sep one character
RECURSIVE SplitFrom(_, _, _, _)
SplitFrom(s, sep, i, cur) ==
  IF i > Len(s) THEN <<cur>>
  ELSE IF s[i] = sep THEN <<cur>> \o SplitFrom(s, sep, i + 1, <<>>)
  ELSE SplitFrom(s, sep, i + 1, Append(cur, s[i]))

Split(s, sep) == SplitFrom(s, sep, 1, <<>>)

\* String.prototype.replace(c, ''): the first c is removed
RECURSIVE RemoveFirst(_, _)
RemoveFirst(s, c) ==
  IF Len(s) = 0 THEN s
  ELSE IF Head(s) = c THEN Tail(s)
  ELSE <<Head(s)>> \o RemoveFirst(Tail(s), c)

RECURSIVE DigitRun(_, _)
DigitRun(s, i) ==
  \* how many digits s holds from position i on
  IF i <= Len(s) /\ IsDigit(s[i]) THEN 1 + DigitRun(s, i + 1) ELSE 0

RECURSIVE DigitsValue(_, _, _)
DigitsValue(s, i, n) ==
  \* the number the n digits of s from position i on stand for
  IF n = 0 THEN 0
  ELSE DigitsValue(s, i, n - 1) * 10 + DigitVal(s[i + n - 1])

RECURSIVE SkipBlanks(_, _)
SkipBlanks(s, i) ==
  IF i <= Len(s) /\ s[i] = " " THEN SkipBlanks(s, i + 1) ELSE i

\* Number.parseFloat of a string: leading blanks, a sign, then the longest
\* prefix digits[.digits] or .digits; NaN when there is none
parseFloatStr(str) ==
  Only({ Only({ Only({ Only({ Only({
      IF nInt + nFr = 0 THEN NaN
      ELSE Only({ IF i0 <= Len(s) /\ s[i0] = "-" THEN FNeg(v) ELSE v
                  : v \in {Dec(DigitsValue(s, i1, nInt) * 10^nFr
                               + DigitsValue(s, i1 + nInt + 1, nFr), nFr)} })
    : nFr  \in {IF i1 + nInt <= Len(s) /\ s[i1 + nInt] = "."
                THEN DigitRun(s, i1 + nInt + 1) ELSE 0} })
    : nInt \in {DigitRun(s, i1)} })
    : i1   \in {IF i0 <= Len(s) /\ s[i0] \in {"-", "+"}
                THEN i0 + 1 ELSE i0} })
    : i0   \in {SkipBlanks(s, 1)} })
    : s    \in {str} })

\* whether arr[i] (i from 0) is an element of the array and not undefined
Defined(arr, i) == i + 1 <= Len(arr)

\* Number.parseFloat(arr[i]): undefined reads as the text "undefined"
parseFloat(arr, i) ==
  IF Defined(arr, i) THEN parseFloatStr(arr[i + 1]) ELSE NaN

RECURSIVE NatToString(_)
NatToString(n) ==
  IF n < 10 THEN <<Digits[n + 1]>>
  ELSE NatToString(n \div 10) \o <<Digits[(n % 10) + 1]>>

\* Number.prototype.toString() of NaN and of whole numbers below 2^31
NumberToString(x) ==
  Only({ IF ~IsNum(v) THEN <<"N", "a", "N">>
         ELSE IF v.s = 1 THEN <<"-">> \o NatToString(-ToInt(v))
         ELSE NatToString(ToInt(v))
         : v \in {x} })

RECURSIVE Repeat(_, _)
Repeat(c, n) == IF n <= 0 THEN <<>> ELSE <<c>> \o Repeat(c, n - 1)

\* String.prototype.padStart(n, c)
padStart(s, n, c) == Only({ Repeat(c, n - Len(v)) \o v : v \in {s} })

\* Number.prototype.toFixed(3) for |x| < 2^31 / 1000: the integer n nearest
\* to 1000 |x|, the larger of two, written with three decimals
toFixed3(x) ==
  Only({
      IF ~IsNum(v) THEN <<"N", "a", "N">>
      ELSE Only({ Only({
          (IF v.s = 1 THEN <<"-">> ELSE <<>>)
          \o NatToString(n \div 1000) \o <<".">>
          \o padStart(NatToString(n % 1000), 3, "0")
        : n \in {BigToInt(IF v.e >= 0
                          THEN BigShl(t, v.e)
                          ELSE BigShr(BigAdd(t, BigShl(<<1>>, -v.e - 1)),
                                      -v.e))} })
        : t \in {BigMul(v.m, BigNat(1000))} })
    : v \in {x} })

---------------------------------------------------------------------------
(* Epoch                                                                   *)

\* a constructor call that throws nothing and leaves julianTT NaN
ThrewNothing(error) == [threw |-> "", julianTT |-> NaN]

\* the outcome of a constructor call: it threw, or it stored julianTT
Threw(error) == [threw |-> error, julianTT |-> NaN]
Returned(julianTT) == [threw |-> "", julianTT |-> julianTT]

\* new Epoch(isoString)
constructor(isoString) ==
  Only({ Only({
      IF ~Defined(dateTimeArray, 1) THEN Threw("TypeError")
      ELSE Only({
          IF ~Defined(timeArray, 2) THEN Threw("TypeError")
          ELSE Returned(julianUTCtoTT(
                 calendarToJulian(
                   parseFloat(dateArray, 0),
                   parseFloat(dateArray, 1),
                   parseFloat(dateArray, 2),
                   parseFloat(timeArray, 0),
                   parseFloat(timeArray, 1),
                   parseFloatStr(RemoveFirst(timeArray[3], "Z")))))
        : timeArray \in {Split(dateTimeArray[2], ":")} })
    : dateArray     \in {Split(dateTimeArray[1], "-")} })
    : dateTimeArray \in {Split(isoString, "T")} })

\* epoch.toString()
toString(julianTT) ==
  Only({
      padStart(NumberToString(dateTime.year), 4, "0") \o <<"-">>
      \o padStart(NumberToString(dateTime.month), 2, "0") \o <<"-">>
      \o padStart(NumberToString(dateTime.day), 2, "0") \o <<"T">>
      \o padStart(NumberToString(dateTime.hour), 2, "0") \o <<":">>
      \o padStart(NumberToString(dateTime.minute), 2, "0") \o <<":">>
      \o padStart(toFixed3(dateTime.second), 6, "0") \o <<"Z">>
    : dateTime \in {julianToCalendar(julianTTtoUTC(julianTT))} })

\* epoch.plusDays(days): the julianTT of the Epoch it returns
plusDays(julianTT, days) == FAdd(julianTT, days)

\* getJulianCenturiesPastJ2000 without the subtraction of J2000
centuriesPastJulianDayZero(julianTT) == FMul(julianTT, JD_RECIPROCAL_4)

\* epoch.getJulianCenturiesPastJ2000()
getJulianCenturiesPastJ2000(julianTT) ==
  FMul(FSub(julianTT, J2000), JD_RECIPROCAL_4)

---------------------------------------------------------------------------
(* The program as a state machine.                                         *)

VARIABLES
  module,   \* "unlinked", "linked", or "SyntaxError" when linking failed
  heap,     \* the Epoch objects created so far; an object is its index
  call      \* the last call: what was called, on what, and what came back

vars == <<module, heap, call>>

Idle == [op |-> "none"]

Init ==
  /\ module = "unlinked"
  /\ heap = <<>>
  /\ call = Idle

\* A bundler or transpiler binds imports by property lookup and does not
\* check the names: the modules load whatever they import.
LinkLoose ==
  /\ module = "unlinked"
  /\ module' = "linked"
  /\ UNCHANGED <<heap, call>>

\* A native ES module loader rejects the import of a name the module does
\* not export, before any code runs.
LinkStrict ==
  /\ module = "unlinked"
  /\ module' = IF ConversionImports \cup EpochImports
                    \subseteq DOMAIN constants
               THEN "linked" ELSE "SyntaxError"
  /\ UNCHANGED <<heap, call>>

---------------------------------------------------------------------------
(* Epoch: inputs                                                           *)

\* the most Epoch objects kept at once
MaxEpochs == 2

\* the decimal digits of n, zero-padded to a width
Field(n, width) == padStart(NatToString(n), width, "0")

RECURSIVE Join(_, _)
Join(parts, sep) ==
  IF Len(parts) = 0 THEN <<>>
  ELSE IF Len(parts) = 1 THEN parts[1]
  ELSE parts[1] \o <<sep>> \o Join(Tail(parts), sep)

\* the date fields d and the time fields t (the last with milliseconds ms)
\* written as an ISO string: d and t joined by - and by :, mark in between
DateText(d) ==
  Join([i \in 1..Len(d) |-> Field(d[i], IF i = 1 THEN 4 ELSE 2)], "-")

IsoText(d, mark, t, ms) ==
  DateText(d) \o mark \o Join([i \in 1..Len(t) |-> Field(t[i], 2)], ":")
  \o <<".">> \o Field(ms, 3) \o <<"Z">>

\* date, time, milliseconds
ValidFields ==
  {<<<<2018, 8, 8>>, <<8, 8, 8>>, 888>>,
   <<<<2018, 8, 8>>, <<8, 8, 8>>, 0>>,
   <<<<2000, 1, 1>>, <<12, 0, 0>>, 0>>,
   <<<<1583, 1, 1>>, <<0, 0, 0>>, 0>>,
   <<<<9999, 12, 31>>, <<23, 59, 59>>, 0>>}

ValidInputs == {IsoText(f[1], <<"T">>, f[2], f[3]) : f \in ValidFields}

MalformedInputs ==
  {DateText(<<2018, 8, 8>>),                                \* no time
   IsoText(<<2018, 8, 8>>, <<" ">>, <<8, 8, 8>>, 0),        \* no T
   IsoText(<<2018, 8>>, <<"T">>, <<8, 8, 8>>, 0),           \* no day
   IsoText(<<2018, 8, 8>>, <<"T">>, <<8, 8>>, 0),           \* no seconds
   IsoText(<<2018, 8, 8, 8>>, <<"T">>, <<8, 8, 8>>, 0),     \* 4 date fields
   IsoText(<<2018, 8, 8>>, <<"T">>, <<8, 8, 8, 8>>, 0)}     \* 4 time fields

IsoInputs == ValidInputs \cup MalformedInputs

JulianInputs == {J2000, Dec(24515365, 1), Dec(245833875, 2)}

DayInputs == {One, Dec(-5, 1)}

\* new Epoch(s) for every input s, computed once
constructed == [s \in IsoInputs |-> constructor(s)]

---------------------------------------------------------------------------
(* Epoch: operations                                                       *)

\* new Epoch(isoString)
New(isoString) ==
  /\ module = "linked"
  /\ Len(heap) < MaxEpochs
  /\ IF constructed[isoString].threw # ""
     THEN /\ call' = [op |-> "new", arg |-> isoString,
                      threw |-> constructed[isoString].threw, ret |-> 0]
          /\ UNCHANGED heap
     ELSE /\ heap' = Append(heap,
                            [julianTT |-> constructed[isoString].julianTT])
          /\ call' = [op |-> "new", arg |-> isoString, threw |-> "",
                      ret |-> Len(heap) + 1]
  /\ UNCHANGED module

\* Epoch.fromJulianTT(julianTT)
FromJulianTT(julianTT) ==
  /\ module = "linked"
  /\ Len(heap) < MaxEpochs
  /\ heap' = Append(heap, [julianTT |-> julianTT])
  /\ call' = [op |-> "fromJulianTT", arg |-> julianTT, ret |-> Len(heap) + 1]
  /\ UNCHANGED module

\* heap[this].copy()
Copy(this) ==
  /\ module = "linked"
  /\ Len(heap) < MaxEpochs
  /\ heap' = Append(heap, [julianTT |-> heap[this].julianTT])
  /\ call' = [op |-> "copy", this |-> this, ret |-> Len(heap) + 1]
  /\ UNCHANGED module

\* plusDays adding the days to the receiver and returning it
PlusDaysInPlace(this, days) ==
  /\ module = "linked"
  /\ Len(heap) < MaxEpochs
  /\ heap' = [heap EXCEPT
                ![this].julianTT = plusDays(heap[this].julianTT, days)]
  /\ call' = [op |-> "plusDays", this |-> this, arg |-> days, ret |-> this]
  /\ UNCHANGED module

\* heap[this].plusDays(days)
PlusDays(this, days) ==
  /\ module = "linked"
  /\ Len(heap) < MaxEpochs
  /\ heap' = Append(heap,
                    [julianTT |-> plusDays(heap[this].julianTT, days)])
  /\ call' = [op |-> "plusDays", this |-> this, arg |-> days,
              ret |-> Len(heap) + 1]
  /\ UNCHANGED module

\* heap[this].toString()
ToStringCall(this) ==
  /\ module = "linked"
  /\ call' = [op |-> "toString", this |-> this,
              ret |-> toString(heap[this].julianTT)]
  /\ UNCHANGED <<module, heap>>

\* heap[this].getJulianCenturiesPastJ2000()
GetJulianCenturiesPastJ2000(this) ==
  /\ module = "linked"
  /\ call' = [op |-> "getJulianCenturiesPastJ2000", this |-> this,
              ret |-> getJulianCenturiesPastJ2000(heap[this].julianTT)]
  /\ UNCHANGED <<module, heap>>

Next ==
  \/ LinkLoose
  \/ LinkStrict
  \/ \E s \in IsoInputs : New(s)
  \/ \E j \in JulianInputs : FromJulianTT(j)
  \/ \E this \in 1..Len(heap) : Copy(this)
  \/ \E this \in 1..Len(heap), days \in DayInputs : PlusDays(this, days)
  \/ \E this \in 1..Len(heap) : ToStringCall(this)
  \/ \E this \in 1..Len(heap) : GetJulianCenturiesPastJ2000(this)

Spec == Init /\ [][Next]_vars

---------------------------------------------------------------------------
(* daysToHMS and hmsToDays, called directly                                *)

\* the inputs are the tenths of a day from -HmsSpan to HmsSpan
HmsSpan == 25

\* and -1e-18
HmsInputs ==
  {Dec(k, 1) : k \in -HmsSpan..HmsSpan}
  \cup {FNeg(FMul(Dec(1, 9), Dec(1, 9)))}

DaysToHMS(days) ==
  /\ module = "linked"
  /\ call' = [op |-> "daysToHMS", arg |-> days, ret |-> daysToHMS(days)]
  /\ UNCHANGED <<module, heap>>

\* hmsToDays on the fields daysToHMS has just returned
HmsToDays ==
  /\ module = "linked"
  /\ call.op = "daysToHMS"
  /\ call' = [op |-> "hmsToDays", arg |-> call.ret, days |-> call.arg,
              ret |-> hmsToDays(call.ret.hours, call.ret.minutes,
                                call.ret.seconds)]
  /\ UNCHANGED <<module, heap>>

NextHMS ==
  \/ LinkLoose
  \/ LinkStrict
  \/ \E days \in HmsInputs : DaysToHMS(days)
  \/ HmsToDays

SpecHMS == Init /\ [][NextHMS]_vars

---------------------------------------------------------------------------
(* julianUTCtoTT and julianTTtoUTC, called directly                        *)

\* the inputs are the half days from 0 to TTSpan / 2, and two dates
TTSpan == 60

TTInputs ==
  {FMul(FromInt(k), Half) : k \in 0..TTSpan}
  \cup {J2000, Dec(245833875, 2)}

JulianUTCtoTT(jd) ==
  /\ module = "linked"
  /\ call' = [op |-> "julianUTCtoTT", arg |-> jd, ret |-> julianUTCtoTT(jd),
              leg |-> 1, start |-> jd]
  /\ UNCHANGED <<module, heap>>

JulianTTtoUTC(jd) ==
  /\ module = "linked"
  /\ call' = [op |-> "julianTTtoUTC", arg |-> jd, ret |-> julianTTtoUTC(jd),
              leg |-> 1, start |-> jd]
  /\ UNCHANGED <<module, heap>>

\* julianTTtoUTC on what julianUTCtoTT has just returned
BackToUTC ==
  /\ module = "linked"
  /\ call.op = "julianUTCtoTT"
  /\ call.leg = 1
  /\ call' = [op |-> "julianTTtoUTC", arg |-> call.ret,
              ret |-> julianTTtoUTC(call.ret), leg |-> 2,
              start |-> call.start]
  /\ UNCHANGED <<module, heap>>

\* julianUTCtoTT on what julianTTtoUTC has just returned
BackToTT ==
  /\ module = "linked"
  /\ call.op = "julianTTtoUTC"
  /\ call.leg = 1
  /\ call' = [op |-> "julianUTCtoTT", arg |-> call.ret,
              ret |-> julianUTCtoTT(call.ret), leg |-> 2,
              start |-> call.start]
  /\ UNCHANGED <<module, heap>>

NextTT ==
  \/ LinkLoose
  \/ LinkStrict
  \/ \E jd \in TTInputs : JulianUTCtoTT(jd)
  \/ \E jd \in TTInputs : JulianTTtoUTC(jd)
  \/ BackToUTC
  \/ BackToTT

SpecTT == Init /\ [][NextTT]_vars

---------------------------------------------------------------------------
(* julianToCalendar and calendarToJulian around the calendar cutover       *)

\* the inputs are the half days up to CutSpan / 2 days from JD 2299160
CutSpan == 30

CutInputs == {Dec(22991600 + 5 * k, 1) : k \in -CutSpan..CutSpan}

JulianToCalendar(jd) ==
  /\ module = "linked"
  /\ call' = [op |-> "julianToCalendar", arg |-> jd,
              gregorian |-> GregorianBranch(jd),
              ret |-> julianToCalendar(jd)]
  /\ UNCHANGED <<module, heap>>

\* calendarToJulian on the fields julianToCalendar has just returned
CalendarToJulianBack ==
  /\ module = "linked"
  /\ call.op = "julianToCalendar"
  /\ call' = [op |-> "calendarToJulian", arg |-> call.ret, jd |-> call.arg,
              ret |-> calendarToJulian(call.ret.year, call.ret.month,
                                       call.ret.day, call.ret.hour,
                                       call.ret.minute, call.ret.second)]
  /\ UNCHANGED <<module, heap>>

NextCutover ==
  \/ LinkLoose
  \/ LinkStrict
  \/ \E jd \in CutInputs : JulianToCalendar(jd)
  \/ CalendarToJulianBack

SpecCutover == Init /\ [][NextCutover]_vars

---------------------------------------------------------------------------
(* calendarToJulian, called on the days of the Gregorian calendar in turn  *)

\* the most days walked on from a first date
MaxWalk == 20

FirstDates ==
  {<<1582, 10, 15>>, <<1599, 12, 20>>, <<1700, 2, 20>>, <<1900, 2, 20>>,
   <<2000, 2, 20>>, <<2023, 12, 20>>, <<2024, 2, 20>>, <<2100, 2, 20>>,
   <<9999, 12, 11>>}

\* hour, minute, milliseconds
Midnight == <<0, 0, 0>>
TimeInputs == {<<12, 0, 0>>, <<23, 59, 59000>>, <<8, 8, 8888>>}

IsLeap(y) == (y % 4 = 0 /\ y % 100 # 0) \/ y % 400 = 0

DaysInMonth(y, m) ==
  IF m = 2 THEN (IF IsLeap(y) THEN 29 ELSE 28)
  ELSE IF m \in {4, 6, 9, 11} THEN 30 ELSE 31

\* the day after a date of the Gregorian calendar
NextDate(date) ==
  IF date[3] < DaysInMonth(date[1], date[2])
  THEN <<date[1], date[2], date[3] + 1>>
  ELSE IF date[2] < 12 THEN <<date[1], date[2] + 1, 1>>
  ELSE <<date[1] + 1, 1, 1>>

\* calendarToJulian(year, month, day, hour, minute, second)
JulianOf(date, time) ==
  calendarToJulian(FromInt(date[1]), FromInt(date[2]), FromInt(date[3]),
                   FromInt(time[1]), FromInt(time[2]), Dec(time[3], 3))

\* calendarToJulian(year, month, day, 0, 0, 0) of a first date
Start(date) ==
  /\ module = "linked"
  /\ call' = [op |-> "calendarToJulian", date |-> date, time |-> Midnight,
              steps |-> 0, ret |-> JulianOf(date, Midnight), before |-> NaN]
  /\ UNCHANGED <<module, heap>>

\* then of the day after; before is the value for the day before
NextDay ==
  /\ module = "linked"
  /\ call.op = "calendarToJulian"
  /\ call.time = Midnight
  /\ call.steps < MaxWalk
  /\ call.date # <<9999, 12, 31>>
  /\ call' = [op |-> "calendarToJulian", date |-> NextDate(call.date),
              time |-> Midnight, steps |-> call.steps + 1,
              ret |-> JulianOf(NextDate(call.date), Midnight),
              before |-> call.ret]
  /\ UNCHANGED <<module, heap>>

\* and of a time of the same day; before is the value for midnight
WithTime(time) ==
  /\ module = "linked"
  /\ call.op = "calendarToJulian"
  /\ call.time = Midnight
  /\ call' = [op |-> "calendarToJulian", date |-> call.date, time |-> time,
              steps |-> call.steps, ret |-> JulianOf(call.date, time),
              before |-> call.ret]
  /\ UNCHANGED <<module, heap>>

NextCalendar ==
  \/ LinkLoose
  \/ LinkStrict
  \/ \E date \in FirstDates : Start(date)
  \/ NextDay
  \/ \E time \in TimeInputs : WithTime(time)

SpecCalendar == Init /\ [][NextCalendar]_vars

---------------------------------------------------------------------------
(* Properties.  The reference values below are computed apart from the     *)
(* conversions they are compared with.                                     *)

\* |x|
FAbs(x) == IF IsNum(x) /\ x.s = 1 THEN FNeg(x) ELSE x

\* x is a whole number
IsWhole(x) ==
  /\ IsNum(x)
  /\ \/ IsZero(x)
     \/ x.e >= 0
     \/ BigShl(BigShr(x.m, -x.e), -x.e) = x.m

\* 2^-51, two units in the last place of 1
Ulps == Num(0, BigShl(<<1>>, Prec - 1), -(Prec - 1) - 51)

\* x is within a relative 2^-51 of the magnitude scale from y
Near(x, y, scale) == FLe(FAbs(FSub(x, y)), FMul(Ulps, scale))

\* the calendar fields of a valid input, as the numbers they denote
FieldsOf(f) ==
  <<FromInt(f[1][1]), FromInt(f[1][2]), FromInt(f[1][3]),
    FromInt(f[2][1]), FromInt(f[2][2]), Dec(f[2][3] * 1000 + f[3], 3)>>

(* C1: for every valid input string S with whole seconds and a date after  *)
(* 1582-10-15, new Epoch(S) succeeds and its toString() returns exactly S. *)
C1_RoundTrip ==
  call.op = "new"
    => \A f \in ValidFields :
         f[3] = 0 /\ call.arg = IsoText(f[1], <<"T">>, f[2], f[3])
           => /\ call.threw = ""
              /\ toString(heap[call.ret].julianTT) = call.arg

\* 69.184 s in days
Offset69s == FDiv(Dec(69184, 3), FromInt(86400))

(* C2: for every well-formed input the julianTT stored by new Epoch(s) is  *)
(* calendarToJulian of the parsed fields plus 69.184 / 86400 of a day.     *)
C2_StoredJulianTT ==
  call.op = "new"
    => \A f \in ValidFields :
         call.arg = IsoText(f[1], <<"T">>, f[2], f[3])
           => LET v == FieldsOf(f)
              IN  /\ call.threw = ""
                  /\ heap[call.ret].julianTT
                       = FAdd(calendarToJulian(v[1], v[2], v[3],
                                               v[4], v[5], v[6]),
                              Offset69s)

(* C3: every step leaves every existing Epoch with the julianTT it has;    *)
(* plusDays(days) returns a new Epoch, not the receiver, that holds the    *)
(* receiver's julianTT + days, and copy() a new Epoch, not the receiver,   *)
(* that holds the receiver's julianTT.                                     *)
C3_NewInstance ==
  [][ /\ Len(heap') >= Len(heap)
      /\ \A i \in 1..Len(heap) : heap'[i] = heap[i]
      /\ call' # call /\ call'.op \in {"plusDays", "copy"}
           => /\ Len(heap') = Len(heap) + 1
              /\ call'.ret = Len(heap')
              /\ call'.ret # call'.this
              /\ heap'[call'.ret].julianTT
                   = IF call'.op = "copy"
                     THEN heap[call'.this].julianTT
                     ELSE FAdd(heap[call'.this].julianTT, call'.arg)
    ]_vars

\* plusDays has returned an Epoch that differs from its receiver, which is
\* still there unchanged
C3_Witness ==
  /\ call.op = "plusDays"
  /\ call.ret # call.this
  /\ IsNum(heap[call.this].julianTT)
  /\ heap[call.ret].julianTT # heap[call.this].julianTT

\* the tolerance of the round trip over the cutover, in days
CutTolerance == Dec(1, 9)

(* C4: julianToCalendar(2299160) takes the Julian branch and               *)
(* julianToCalendar(2299161) the Gregorian branch, and on either side of   *)
(* the cutover calendarToJulian of the fields julianToCalendar(jd) returns *)
(* gives back jd.                                                          *)
C4_CutoverRoundTrip ==
  /\ call.op = "julianToCalendar"
       => /\ call.arg = FromInt(2299160) => ~call.gregorian
          /\ call.arg = FromInt(2299161) => call.gregorian
  /\ call.op = "calendarToJulian"
       => FLe(FAbs(FSub(call.ret, call.jd)), CutTolerance)

\* how many times the character c occurs in s from position i to j
CountIn(s, c, i, j) == Cardinality({k \in i..j : s[k] = c})

\* the positions of the first and of the second T of s, or just past s
FirstT(s) ==
  IF \E k \in 1..Len(s) : s[k] = "T"
  THEN CHOOSE k \in 1..Len(s) :
         s[k] = "T" /\ \A l \in 1..(k - 1) : s[l] # "T"
  ELSE Len(s) + 1

SecondT(s) ==
  IF \E k \in (FirstT(s) + 1)..Len(s) : s[k] = "T"
  THEN CHOOSE k \in (FirstT(s) + 1)..Len(s) :
         s[k] = "T" /\ \A l \in (FirstT(s) + 1)..(k - 1) : s[l] # "T"
  ELSE Len(s) + 1

HasT(s) == FirstT(s) <= Len(s)

\* the fields between - before the first T, and between : after it
DateFieldCount(s) == 1 + CountIn(s, "-", 1, FirstT(s) - 1)
TimeFieldCount(s) == 1 + CountIn(s, ":", FirstT(s) + 1, SecondT(s) - 1)

(* C5, amended: new Epoch(s) throws a TypeError, and produces no Epoch,    *)
(* exactly when s has no T or has fewer than three fields between : after  *)
(* its first T.  For every other s an Epoch is produced: with julianTT NaN *)
(* when s has fewer than three fields between - before the T, and with a   *)
(* number, the fields past the third ignored, when the first three date    *)
(* and time fields are numbers.                                            *)
C5_ThrowsWithoutTime ==
  [][ call' # call /\ call'.op = "new"
        => IF ~HasT(call'.arg) \/ TimeFieldCount(call'.arg) < 3
           THEN /\ call'.threw = "TypeError"
                /\ heap' = heap
           ELSE /\ call'.threw = ""
                /\ Len(heap') = Len(heap) + 1
                /\ call'.ret = Len(heap')
                /\ DateFieldCount(call'.arg) < 3
                     => heap'[call'.ret].julianTT = NaN
                /\ DateFieldCount(call'.arg) >= 3
                     => IsNum(heap'[call'.ret].julianTT)
    ]_vars

\* an input with a field missing has produced an Epoch
C5_Witness ==
  /\ call.op = "new"
  /\ call.threw = ""
  /\ DateFieldCount(call.arg) < 3
  /\ heap[call.ret].julianTT = NaN

(* C5 as stated: a string with no T, or with other than three fields       *)
(* between - or between :, makes new Epoch throw and produces no Epoch.    *)
C5_AsStated ==
  /\ call.op = "new"
  /\ \/ ~HasT(call.arg)
     \/ DateFieldCount(call.arg) # 3
     \/ TimeFieldCount(call.arg) # 3
  => call.threw # "" /\ call.ret = 0

\* the number s holds in its n digits from position i on, or -1
FieldValue(s, i, n) ==
  IF \A k \in i..(i + n - 1) : IsDigit(s[k])
  THEN DigitsValue(s, i, n) ELSE -1

\* YYYY-MM-DDTHH:MM:SS.sssZ with every field in its range
Canonical(s) ==
  /\ Len(s) = 24
  /\ s[5] = "-" /\ s[8] = "-" /\ s[11] = "T" /\ s[14] = ":"
  /\ s[17] = ":" /\ s[20] = "." /\ s[24] = "Z"
  /\ FieldValue(s, 1, 4) \in 0..9999
  /\ FieldValue(s, 6, 2) \in 1..12
  /\ FieldValue(s, 9, 2) \in 1..31
  /\ FieldValue(s, 12, 2) \in 0..23
  /\ FieldValue(s, 15, 2) \in 0..59
  /\ FieldValue(s, 18, 2) \in 0..59
  /\ FieldValue(s, 21, 3) \in 0..999

\* 1583-01-02T00:00 and 9999-12-30T00:00 as Julian dates: an instant
\* between them lies in the years 1583 to 9999 in UTC as in TT
From1583 == Dec(22992395, 1)
To9999 == Dec(53734825, 1)

(* C6: for every Epoch whose instant lies in the years 1583 to 9999,       *)
(* toString() returns 24 characters of the shape YYYY-MM-DDTHH:MM:SS.sssZ  *)
(* with month 01..12, day 01..31, hour 00..23, minute 00..59 and seconds   *)
(* 00.000..59.999.                                                         *)
C6_CanonicalShape ==
  call.op = "toString"
    => LET j == heap[call.this].julianTT
       IN  (FLe(From1583, j) /\ FLe(j, To9999) => Canonical(call.ret))

\* the tolerance of hmsToDays(daysToHMS(days)), in days
HmsTolerance == FMul(Dec(1, 7), Dec(1, 7))

Sixty == FromInt(60)

C8_OffsetRoundTrip ==
  /\ call.op = "julianUTCtoTT"
       => /\ FLe(call.arg, call.ret)
          /\ Near(FSub(call.ret, call.arg), TT_MINUS_UTC,
                  FAdd(FAbs(call.arg), TT_MINUS_UTC))
  /\ call.op = "julianTTtoUTC"
       => /\ FLe(call.ret, call.arg)
          /\ Near(FSub(call.arg, call.ret), TT_MINUS_UTC,
                  FAdd(FAbs(call.arg), TT_MINUS_UTC))
  /\ call.op \in {"julianUTCtoTT", "julianTTtoUTC"} /\ call.leg = 2
       => Near(call.ret, call.start, FAdd(FAbs(call.start), TT_MINUS_UTC))

\* a date has gone to TT and back to UTC and has not come back the same
C8_Witness ==
  /\ call.op = "julianTTtoUTC"
  /\ call.leg = 2
  /\ call.ret # call.start

(* C8 as stated: julianTTtoUTC(julianUTCtoTT(x)) and                       *)
(* julianUTCtoTT(julianTTtoUTC(x)) equal x.                                *)
C8_AsStated ==
  call.op \in {"julianUTCtoTT", "julianTTtoUTC"} /\ call.leg = 2
    => call.ret = call.start

\* (j - 2451545.0) / 36525
CenturiesQuotient(j) == FDiv(FSub(j, FromInt(2451545)), FromInt(36525))

(* C9, amended: fromJulianTT(j) stores j unchanged, and                    *)
(* getJulianCenturiesPastJ2000() is exactly 0 for j = 2451545.0 and for    *)
(* every number j within a relative 2^-51 of (j - 2451545.0) / 36525, not  *)
(* always equal to it; it is NaN when j is NaN.                            *)
C9_Centuries ==
  /\ call.op = "fromJulianTT" => heap[call.ret] = [julianTT |-> call.arg]
  /\ call.op = "getJulianCenturiesPastJ2000"
       => LET j == heap[call.this].julianTT
          IN  /\ j = FromInt(2451545) => call.ret = Zero
              /\ IsNum(j) => Near(call.ret, CenturiesQuotient(j),
                                  FAbs(CenturiesQuotient(j)))
              /\ ~IsNum(j) => call.ret = NaN

\* the centuries have been asked of an Epoch away from J2000
C9_Witness ==
  /\ call.op = "getJulianCenturiesPastJ2000"
  /\ IsNum(call.ret)
  /\ ~IsZero(call.ret)
  /\ call.ret # CenturiesQuotient(heap[call.this].julianTT)

(* C9 as stated: getJulianCenturiesPastJ2000() equals                      *)
(* (j - 2451545.0) / 36525 for every julianTT j.                           *)
C9_AsStated ==
  call.op = "getJulianCenturiesPastJ2000" /\ IsNum(heap[call.this].julianTT)
    => call.ret = CenturiesQuotient(heap[call.this].julianTT)

\* the Julian day number of a date of the Gregorian calendar, in whole
\* numbers: March is month 0 of a year that starts 4800 years back
RefJDN(date) ==
  LET early == IF date[2] <= 2 THEN 1 ELSE 0
      y == date[1] + 4800 - early
      m == date[2] + 12 * early - 3
  IN  date[3] + ((153 * m + 2) \div 5) + 365 * y + (y \div 4)
      - (y \div 100) + (y \div 400) - 32045

(* C10: for every date of the Gregorian calendar from 1582-10-15 on,       *)
(* calendarToJulian(year, month, day, 0, 0, 0) is the Julian day number of *)
(* the date minus 0.5, also in January and February; the values of a day   *)
(* and the day after differ by exactly 1; and with hour, minute, second    *)
(* the value is the one for midnight plus hmsToDays(hour, minute, second). *)
C10_JulianDayNumber ==
  call.op = "calendarToJulian"
    => IF call.time = Midnight
       THEN /\ call.ret = FSub(FromInt(RefJDN(call.date)), Half)
            /\ call.steps > 0 => FSub(call.ret, call.before) = One
       ELSE call.ret = FAdd(call.before,
                            hmsToDays(FromInt(call.time[1]),
                                      FromInt(call.time[2]),
                                      Dec(call.time[3], 3)))

\* the walk has come to a 29 February
C10_Witness ==
  /\ call.op = "calendarToJulian"
  /\ call.steps > 0
  /\ call.date[2] = 2
  /\ call.date[3] = 29
  /\ call.time = Midnight

=============================================================================
